---- MODULE Spec2Model ----
(***************************************************************************)
(* A model of ordered_set.OrderedSet (src/ordered_set/__init__.py): the    *)
(* list `items`, the dict `map` from element to position, and the          *)
(* operations that mutate them.  Positions are Python's: 0-based, negative *)
(* ones counted from the end.  A TLA+ sequence is 1-based, so the element  *)
(* at Python position i of a list s is s[i + 1].                           *)
(***************************************************************************)
EXTENDS Integers, Sequences, FiniteSets, TLC

\* ------------------------------------------------------------------ bounds
\* the elements are 1 .. NumElems
NumElems == 3
\* longest source the constructor, intersection_update or
\* symmetric_difference_update is given
MaxLen == 3
\* most elements, over all its sources, one call of update or of
\* difference_update is given
MaxSrcLen == 1
\* most sources one call of update or difference_update is given
MaxSources == 2

Elems == 1 .. NumElems
Indices == (0 - (NumElems + 1)) .. NumElems

SeqsUpTo(n) == UNION {[1 .. k -> Elems] : k \in 0 .. n}

\* An argument of update: an iterable with its elements, or a non-iterable.
Iterable(s) == [iterable |-> TRUE, elems |-> s]
NonIterable == [iterable |-> FALSE, elems |-> <<>>]

\* the lists of at most k iterable sources with at most n elements in all
RECURSIVE IterableLists(_, _)
IterableLists(k, n) ==
    IF k = 0 THEN {<<>>}
    ELSE {<<>>} \cup UNION {
            {<<Iterable(s)>> \o rest : rest \in IterableLists(k - 1, n - Len(s))} :
            s \in SeqsUpTo(n)}

\* the argument lists *sequences of update: update stops at the first source
\* that is not iterable and never reads the ones after it, so a list with
\* such a source has it last
SourceLists(k, n) ==
    IterableLists(k, n)
        \cup (IF k = 0 THEN {}
              ELSE {good \o <<NonIterable>> : good \in IterableLists(k - 1, n)})

UpdateArgs == SourceLists(MaxSources, MaxSrcLen)

\* ------------------------------------------------------- Python primitives
None == <<>>
NoError == "none"
EmptyMap == [e \in {} |-> 0]

Range(s) == {s[i] : i \in 1 .. Len(s)}

\* the index check of s[index] and del s[index] on a list of length n
InRange(index, n) == (0 - n) <= index /\ index < n
\* the non-negative position a valid index denotes
Normal(index, n) == IF index < 0 THEN index + n ELSE index

\* del s[i], 0 <= i < len(s)
DelAt(s, i) == [k \in 1 .. (Len(s) - 1) |-> IF k <= i THEN s[k] ELSE s[k + 1]]
\* s[i] = v, 0 <= i < len(s)
SetAt(s, i, v) == [s EXCEPT ![i + 1] = v]

\* {item: i for i, item in enumerate(items)}: a later position of a repeated
\* item overwrites an earlier one
enumerate_map(items_) ==
    [e \in Range(items_) |->
        (CHOOSE i \in 1 .. Len(items_) :
            items_[i] = e /\ \A j \in (i + 1) .. Len(items_) : items_[j] # e) - 1]

\* the two fields of an OrderedSet
Self(items_, map_) == [items |-> items_, map |-> map_]
Empty == Self(<<>>, EmptyMap)

\* the outcome of a call: the fields after it, the value returned, the error raised
Return(self, ret_) ==
    [items |-> self.items, map |-> self.map, ret |-> ret_, err |-> NoError]
Raise(self, err_) ==
    [items |-> self.items, map |-> self.map, ret |-> None, err |-> err_]

contains(self, key) == key \in DOMAIN self.map

\* ------------------------------------------------------------- operations
\* add without the membership test: the value is appended every time
add_no_check(self, value) ==
    LET s1 == Self(Append(self.items, value),
                   [e \in DOMAIN self.map \cup {value} |->
                        IF e = value THEN Len(self.items) ELSE self.map[e]])
    IN  Return(s1, <<s1.map[value]>>)

\* add that moves a value already present to the end
add_last_wins(self, value) ==
    LET items1 == SelectSeq(self.items, LAMBDA item : item # value) \o <<value>>
        s1 == Self(items1, enumerate_map(items1))
    IN  Return(s1, <<s1.map[value]>>)

add(self, value) ==
    LET s1 == IF value \notin DOMAIN self.map
              THEN Self(Append(self.items, value),
                        self.map @@ (value :> Len(self.items)))
              ELSE self
    IN  Return(s1, <<s1.map[value]>>)

append(self, key) == add(self, key)

\* the inner loop of update: `for item in sequence: item_index = self.add(item)`
RECURSIVE add_all(_, _, _)
add_all(self, item_index, sequence) ==
    IF sequence = <<>>
    THEN [items |-> self.items, map |-> self.map, item_index |-> item_index]
    ELSE LET r == add(self, Head(sequence))
         IN  add_all(Self(r.items, r.map), r.ret[1], Tail(sequence))

\* the outer loop of update: `for sequence in sequences`
RECURSIVE update_from(_, _, _)
update_from(self, item_index, sequences) ==
    IF sequences = <<>>
    THEN Return(self, <<item_index>>)
    ELSE IF ~Head(sequences).iterable
         THEN Raise(self, "ValueError")
         ELSE LET r == add_all(self, item_index, Head(sequences).elems)
              IN  update_from(Self(r.items, r.map), r.item_index, Tail(sequences))

\* update that returns the last position of the set, not the index the last
\* add returned
update_last_position(self, sequences) ==
    LET r == update_from(self, 0, sequences)
    IN  IF r.err = NoError THEN [r EXCEPT !.ret = <<Len(r.items) - 1>>] ELSE r

update(self, sequences) == update_from(self, 0, sequences)

\* OrderedSet(initial): `initial` is <<>> for None, else the one source given
init(initial) ==
    IF initial = <<>> THEN Return(Empty, None)
    ELSE LET r == update(Empty, initial) IN [r EXCEPT !.ret = None]

\* pop that only forgets the popped key and renumbers nothing
pop_norebuild(self, index) ==
    IF self.items = <<>> THEN Raise(self, "KeyError")
    ELSE IF ~InRange(index, Len(self.items)) THEN Raise(self, "IndexError")
    ELSE LET i == Normal(index, Len(self.items))
             elem == self.items[i + 1]
             items1 == DelAt(self.items, i)
         IN  Return(Self(items1, [k \in DOMAIN self.map \ {elem} |-> self.map[k]]),
                    <<elem>>)

\* pop without the test for the empty set
pop_nocheck(self, index) ==
    IF ~InRange(index, Len(self.items)) THEN Raise(self, "IndexError")
    ELSE LET i == Normal(index, Len(self.items))
             elem == self.items[i + 1]
             items1 == DelAt(self.items, i)
         IN  Return(Self(items1, enumerate_map(items1)), <<elem>>)

pop(self, index) ==
    IF self.items = <<>> THEN Raise(self, "KeyError")
    ELSE IF ~InRange(index, Len(self.items)) THEN Raise(self, "IndexError")
    ELSE LET i == Normal(index, Len(self.items))
             elem == self.items[i + 1]
             items1 == DelAt(self.items, i)
         IN  Return(Self(items1, enumerate_map(items1)), <<elem>>)

\* __setitem__ that leaves a value already present in its old place
setitem_keep_old(self, index, value) ==
    LET n == Len(self.items) IN
    IF ~((0 - n) <= index /\ index < n) THEN Raise(self, "IndexError")
    ELSE LET index1 == IF index < 0 THEN index + n ELSE index
             items2 == SetAt(self.items, index1, value)
         IN  Return(Self(items2, enumerate_map(items2)), None)

\* __setitem__ that moves a value already present in front of the element at
\* the target instead of writing it over that element
setitem_insert(self, index, value) ==
    LET n == Len(self.items) IN
    IF ~((0 - n) <= index /\ index < n) THEN Raise(self, "IndexError")
    ELSE LET index1 == IF index < 0 THEN index + n ELSE index
             present == value \in DOMAIN self.map
         IN  IF present /\ self.map[value] = index1
             THEN Return(self, None)
             ELSE LET old_index == self.map[value]
                      items1 == IF present THEN DelAt(self.items, old_index)
                                ELSE self.items
                      index2 == IF present /\ old_index < index1
                                THEN index1 - 1 ELSE index1
                      items2 == IF present
                                THEN SubSeq(items1, 1, index2) \o <<value>>
                                     \o SubSeq(items1, index2 + 1, Len(items1))
                                ELSE SetAt(items1, index2, value)
                  IN  Return(Self(items2, enumerate_map(items2)), None)

setitem(self, index, value) ==
    LET n == Len(self.items) IN
    IF ~((0 - n) <= index /\ index < n) THEN Raise(self, "IndexError")
    ELSE LET index1 == IF index < 0 THEN index + n ELSE index
             present == value \in DOMAIN self.map
         IN  IF present /\ self.map[value] = index1
             THEN Return(self, None)
             ELSE LET old_index == self.map[value]
                      items1 == IF present THEN DelAt(self.items, old_index)
                                ELSE self.items
                      index2 == IF present /\ old_index < index1
                                THEN index1 - 1 ELSE index1
                      items2 == SetAt(items1, index2, value)
                  IN  Return(Self(items2, enumerate_map(items2)), None)

\* __delitem__ that only forgets the deleted key and renumbers nothing
delitem_norebuild(self, index) ==
    LET n == Len(self.items) IN
    IF ~((0 - n) <= index /\ index < n) THEN Raise(self, "IndexError")
    ELSE LET index1 == IF index < 0 THEN index + n ELSE index
             items1 == DelAt(self.items, index1)
         IN  Return(Self(items1, [k \in DOMAIN self.map \ {self.items[index1 + 1]}
                                    |-> self.map[k]]), None)

\* __delitem__ that fills the hole with the last item
delitem_swap_last(self, index) ==
    LET n == Len(self.items) IN
    IF ~((0 - n) <= index /\ index < n) THEN Raise(self, "IndexError")
    ELSE LET index1 == IF index < 0 THEN index + n ELSE index
             items1 == SubSeq(SetAt(self.items, index1, self.items[n]), 1, n - 1)
         IN  Return(Self(items1, enumerate_map(items1)), None)

delitem(self, index) ==
    LET n == Len(self.items) IN
    IF ~((0 - n) <= index /\ index < n) THEN Raise(self, "IndexError")
    ELSE LET index1 == IF index < 0 THEN index + n ELSE index
             items1 == DelAt(self.items, index1)
         IN  Return(Self(items1, enumerate_map(items1)), None)

\* discard without `del self.map[value]`
discard_stale(self, value) ==
    IF contains(self, value)
    THEN LET i == self.map[value]
             items1 == DelAt(self.items, i)
             map2 == [k \in DOMAIN self.map |->
                        IF self.map[k] >= i THEN self.map[k] - 1 ELSE self.map[k]]
         IN  Return(Self(items1, map2), None)
    ELSE Return(self, None)

\* discard without the loop that shifts the later positions down
discard_noshift(self, value) ==
    IF contains(self, value)
    THEN LET i == self.map[value]
             items1 == DelAt(self.items, i)
             map1 == [k \in DOMAIN self.map \ {value} |-> self.map[k]]
         IN  Return(Self(items1, map1), None)
    ELSE Return(self, None)

discard(self, value) ==
    IF contains(self, value)
    THEN LET i == self.map[value]
             items1 == DelAt(self.items, i)
             map1 == [k \in DOMAIN self.map \ {value} |-> self.map[k]]
             map2 == [k \in DOMAIN map1 |->
                        IF map1[k] >= i THEN map1[k] - 1 ELSE map1[k]]
         IN  Return(Self(items1, map2), None)
    ELSE Return(self, None)

\* MutableSet.remove, the mixin method built on __contains__ and discard
remove(self, value) ==
    IF ~contains(self, value) THEN Raise(self, "KeyError")
    ELSE discard(self, value)

clear(self) == Return(Self(<<>>, EmptyMap), None)

\* self[index] for an integer index
getitem(self, index) ==
    IF ~InRange(index, Len(self.items)) THEN Raise(self, "IndexError")
    ELSE Return(self, <<self.items[Normal(index, Len(self.items)) + 1]>>)

\* self.index(key) for a single key
index_of(self, key) ==
    IF key \notin DOMAIN self.map THEN Raise(self, "KeyError")
    ELSE Return(self, <<self.map[key]>>)

\* self.index(key) for a key that is a list: the list comprehension raises
\* the KeyError of the first absent subkey
index_of_list_skip(self, key) ==
    Return(self, <<[k \in 1 .. Len(SelectSeq(key, LAMBDA e : contains(self, e)))
                      |-> self.map[SelectSeq(key, LAMBDA e : contains(self, e))[k]]]>>)

index_of_list(self, key) ==
    IF \E k \in 1 .. Len(key) : index_of(self, key[k]).err # NoError
    THEN Raise(self, "KeyError")
    ELSE Return(self, <<[k \in 1 .. Len(key) |-> index_of(self, key[k]).ret[1]]>>)

\* len(self)
len_(self) == Return(self, <<Len(self.items)>>)

\* a slice with no step; start and stop are None or <<i>>
Slice(start, stop) == [start |-> start, stop |-> stop]
SLICE_ALL == Slice(None, None)

\* where Python's list slicing puts a bound of a list of n items
Clamp(bound, n, default) ==
    IF bound = None THEN default
    ELSE IF bound[1] < 0 THEN (IF bound[1] + n < 0 THEN 0 ELSE bound[1] + n)
    ELSE IF bound[1] > n THEN n ELSE bound[1]

\* s[index] for a slice index
Sliced(s, index) ==
    SubSeq(s, Clamp(index.start, Len(s), 0) + 1, Clamp(index.stop, Len(s), Len(s)))

\* self[index] for a list of integers
getitem_list(self, index) ==
    IF \E k \in 1 .. Len(index) : ~InRange(index[k], Len(self.items))
    THEN Raise(self, "IndexError")
    ELSE Return(self, <<[k \in 1 .. Len(index) |->
                          self.items[Normal(index[k], Len(self.items)) + 1]]>>)

\* [item for item in s if item in keep]
Only(s, keep) == SelectSeq(s, LAMBDA item : item \in keep)
\* [item for item in s if item not in drop]
Without(s, drop) == SelectSeq(s, LAMBDA item : item \notin drop)

update_items(self, items_) ==
    Return(Self(items_, enumerate_map(items_)), None)

\* set(other) for each other in sets, united
RECURSIVE items_to_remove(_)
items_to_remove(sets) ==
    IF sets = <<>> THEN {}
    ELSE Range(Head(sets).elems) \cup items_to_remove(Tail(sets))

difference_update(self, sets) ==
    update_items(self, Without(self.items, items_to_remove(sets)))

\* intersection_update that keeps the order of other
intersection_update_other_order(self, other) ==
    update_items(self, Only(other, Range(self.items)))

intersection_update(self, other) ==
    update_items(self, Only(self.items, Range(other)))

symmetric_difference_update(self, other) ==
    LET items_to_add == Without(other, DOMAIN self.map)
    IN  update_items(self, Without(self.items, Range(other)) \o items_to_add)


\* ------------------------------------------- operations that return a set
\* the elements of the sources, in argument order: it.chain(*sets)
RECURSIVE chain(_)
chain(sets) == IF sets = <<>> THEN <<>> ELSE Head(sets).elems \o chain(Tail(sets))

\* cls(iterable): a new set built from the elements of iterable
cls(iterable) ==
    LET r == init(<<Iterable(iterable)>>) IN Self(r.items, r.map)

copy(self) == Return(self, <<cls(self.items)>>)

\* self[index] for a slice index
getitem_slice(self, index) ==
    IF index = SLICE_ALL THEN copy(self)
    ELSE Return(self, <<cls(Sliced(self.items, index))>>)

\* union that takes the other sources before self
union_others_first(self, sets) ==
    Return(self, <<cls(chain(sets) \o self.items)>>)

union(self, sets) ==
    Return(self, <<cls(self.items \o chain(sets))>>)

\* set.intersection(*map(set, sets)), for one source or more
RECURSIVE common_items(_)
common_items(sets) ==
    IF Len(sets) = 1 THEN Range(Head(sets).elems)
    ELSE Range(Head(sets).elems) \cap common_items(Tail(sets))

\* intersection that keeps what is in some other source
intersection_any(self, sets) ==
    IF sets # <<>>
    THEN Return(self, <<cls(Only(self.items, items_to_remove(sets)))>>)
    ELSE Return(self, <<cls(self.items)>>)

intersection(self, sets) ==
    IF sets # <<>>
    THEN Return(self, <<cls(Only(self.items, common_items(sets)))>>)
    ELSE Return(self, <<cls(self.items)>>)

\* difference that looks at the first other source only
difference_first(self, sets) ==
    IF sets # <<>>
    THEN Return(self, <<cls(Without(self.items, Range(Head(sets).elems)))>>)
    ELSE Return(self, <<cls(self.items)>>)

difference(self, sets) ==
    IF sets # <<>>
    THEN Return(self, <<cls(Without(self.items, items_to_remove(sets)))>>)
    ELSE Return(self, <<cls(self.items)>>)

\* symmetric difference that does not take other through cls
symmetric_difference_raw(self, other) ==
    Return(self, <<Self(Without(self.items, Range(other))
                            \o Without(other, Range(self.items)),
                        enumerate_map(Without(self.items, Range(other))
                            \o Without(other, Range(self.items))))>>)

symmetric_difference(self, other) ==
    LET diff1 == difference(cls(self.items), <<Iterable(other)>>).ret[1]
        diff2 == difference(cls(other), <<Iterable(self.items)>>).ret[1]
    IN  Return(self, union(diff1, <<Iterable(diff2.items)>>).ret)

\* the operators: & is defined by the class, | - ^ by the Set mixin it
\* inherits, which builds its result with cls
and_(self, other) == intersection(self, <<Iterable(other.items)>>)

or_(self, other) == Return(self, <<cls(self.items \o other.items)>>)

sub_(self, other) ==
    Return(self, <<cls(Without(self.items, DOMAIN other.map))>>)

xor_(self, other) ==
    Return(self, or_(sub_(self, other).ret[1], sub_(other, self).ret[1]).ret)

\* ------------------------------------------------------------ comparisons
\* what a set can be compared with: a sequence (list, tuple, ordered set), an
\* unordered set, an iterator (neither sized nor a container), or a value
\* that is not iterable at all; elems lists what iterating over it gives
Sequence(s) == [kind |-> "sequence", elems |-> s]
Iterator(s) == [kind |-> "iterator", elems |-> s]
NotIterable == [kind |-> "other", elems |-> <<>>]

\* the strictly increasing sequences of elements: one listing for each set
Increasing == {s \in SeqsUpTo(NumElems) : \A i \in 1 .. (Len(s) - 1) : s[i] < s[i + 1]}

PlainSet(s) == [kind |-> "set", elems |-> s]

Iterables ==
    {Sequence(s) : s \in SeqsUpTo(MaxLen)}
        \cup {Iterator(s) : s \in SeqsUpTo(MaxLen)}
        \cup {PlainSet(s) : s \in Increasing}

Others == Iterables \cup {NotIterable}

\* isinstance(other, Sized); membership in other is the same whether other
\* is a container or is first turned into a set
Sized(other) == other.kind \in {"sequence", "set"}

\* issubset with the size test of issuperset
issubset_size_swapped(self, other) ==
    IF Sized(other) /\ Len(self.items) < Len(other.elems)
    THEN Return(self, <<FALSE>>)
    ELSE Return(self, <<\A i \in 1 .. Len(self.items) :
                            self.items[i] \in Range(other.elems)>>)

issubset(self, other) ==
    IF Sized(other) /\ Len(self.items) > Len(other.elems)
    THEN Return(self, <<FALSE>>)
    ELSE Return(self, <<\A i \in 1 .. Len(self.items) :
                            self.items[i] \in Range(other.elems)>>)

issuperset(self, other) ==
    IF Sized(other) /\ Len(self.items) < Len(other.elems)
    THEN Return(self, <<FALSE>>)
    ELSE Return(self, <<\A i \in 1 .. Len(other.elems) :
                            contains(self, other.elems[i])>>)

\* __eq__ that ignores order whatever other is
eq_unordered(self, other) ==
    IF other.kind = "other" THEN Return(self, <<FALSE>>)
    ELSE Return(self, <<Range(self.items) = Range(other.elems)>>)

eq(self, other) ==
    IF other.kind = "sequence" THEN Return(self, <<self.items = other.elems>>)
    ELSE IF other.kind = "other" THEN Return(self, <<FALSE>>)
    ELSE Return(self, <<Range(self.items) = Range(other.elems)>>)

\* -------------------------------------------------------------- pickling
\* the two shapes of an exported state: the tuple (None,) and a list
NoneTuple == [type |-> "tuple", elems |-> <<None>>]
StateList(s) == [type |-> "list", elems |-> s]

getstate(self) ==
    IF Len(self.items) = 0 THEN Return(self, <<NoneTuple>>)
    ELSE Return(self, <<StateList(self.items)>>)

\* __setstate__ on a new object: the fields __init__ leaves
setstate(state) ==
    IF state.type = "tuple" /\ state = NoneTuple
    THEN init(<<Iterable(<<>>)>>)
    ELSE init(<<Iterable(state.elems)>>)

\* ------------------------------------------------------------------ state
\* items, map: the fields of the set; call, ret, err: the last call made on
\* it, what it returned and what it raised; old: the fields before that
\* call; prev: the call before it, kept when the last call is add(v) and
\* the one before it was add(v) too or a pop that returned v
VARIABLES items, map, call, ret, err, old, prev, kept

vars == <<items, map, call, ret, err, old, prev, kept>>

\* kept: the set a method returned, held by the caller after the call. Its id
\* says whose list and dict it has: "new" for the ones __init__ made for it,
\* "self" for those of the receiver, "none" while no set was returned.
NoKept == [id |-> "none", items |-> <<>>, map |-> EmptyMap]

SetReturning ==
    {"copy", "__getitem__ (slice)", "union", "intersection", "difference",
     "symmetric_difference"}

\* a result that is the receiver itself
Returned_receiver(r) == [id |-> "self", items |-> r.items, map |-> r.map]

\* the result of a method that ends in cls(...): __init__ gives the new
\* object a list and a dict of its own
Returned(r) == [id |-> "new", items |-> r.ret[1].items, map |-> r.ret[1].map]

\* what the caller holds after the call c with outcome r on the receiver: the
\* set returned, or the one held before, which follows the receiver when it
\* has the receiver's list and dict
Keep(c, r) ==
    IF c.op \in SetReturning /\ r.err = NoError THEN Returned(r)
    ELSE IF kept.id = "self" THEN [kept EXCEPT !.items = r.items, !.map = r.map]
    ELSE kept

NoPrev == [op |-> "none", index |-> 0, ret |-> None, size |-> 0]

Repeats(c) ==
    /\ c.op = "add"
    /\ \/ call.op = "add" /\ call.value = c.value
       \/ call.op = "pop" /\ ret = <<c.value>>

\* the call c, made on the current fields, had the outcome r
Do(c, r) ==
    /\ items' = r.items
    /\ map' = r.map
    /\ ret' = r.ret
    /\ err' = r.err
    /\ call' = c
    /\ old' = Self(items, map)
    /\ kept' = Keep(c, r)
    /\ prev' = IF Repeats(c)
               THEN [op |-> call.op,
                     index |-> IF call.op = "pop" THEN call.index ELSE 0,
                     ret |-> ret, size |-> Len(old.items)]
               ELSE NoPrev

Init ==
    \E initial \in {<<>>} \cup {<<Iterable(s)>> : s \in SeqsUpTo(MaxLen)} :
        LET r == init(initial) IN
        /\ items = r.items
        /\ map = r.map
        /\ ret = r.ret
        /\ err = r.err
        /\ call = [op |-> "init", initial |-> initial]
        /\ old = Empty
        /\ prev = NoPrev
        /\ kept = NoKept

Add ==
    \E value \in Elems :
        /\ Do([op |-> "add", value |-> value], add(Self(items, map), value))

AppendKey ==
    \E key \in Elems :
        /\ Do([op |-> "append", key |-> key], append(Self(items, map), key))

Update ==
    \E sequences \in UpdateArgs :
        /\ Do([op |-> "update", sequences |-> sequences],
              update(Self(items, map), sequences))

Pop ==
    \E index \in Indices :
        /\ Do([op |-> "pop", index |-> index], pop(Self(items, map), index))

SetItem ==
    \E index \in Indices, value \in Elems :
        /\ Do([op |-> "__setitem__", index |-> index, value |-> value],
              setitem(Self(items, map), index, value))

DelItem ==
    \E index \in Indices :
        /\ Do([op |-> "__delitem__", index |-> index],
              delitem(Self(items, map), index))

Discard ==
    \E value \in Elems :
        /\ Do([op |-> "discard", value |-> value], discard(Self(items, map), value))

Remove ==
    \E value \in Elems :
        /\ Do([op |-> "remove", value |-> value], remove(Self(items, map), value))

Clear ==
    /\ Do([op |-> "clear"], clear(Self(items, map)))

Next ==
    \/ Add
    \/ AppendKey
    \/ Update
    \/ Pop
    \/ SetItem
    \/ DelItem
    \/ Discard
    \/ Remove
    \/ Clear

Spec == Init /\ [][Next]_vars

\* ------------------------------------------------- the in-place set algebra
DifferenceUpdate ==
    \E sets \in IterableLists(MaxSources, MaxSrcLen) :
        /\ Do([op |-> "difference_update", sets |-> sets],
              difference_update(Self(items, map), sets))

IntersectionUpdate ==
    \E other \in SeqsUpTo(MaxLen) :
        /\ Do([op |-> "intersection_update", other |-> other],
              intersection_update(Self(items, map), other))

SymmetricDifferenceUpdate ==
    \E other \in SeqsUpTo(MaxLen) :
        /\ Do([op |-> "symmetric_difference_update", other |-> other],
              symmetric_difference_update(Self(items, map), other))

NextUpdate ==
    \/ DifferenceUpdate
    \/ IntersectionUpdate
    \/ SymmetricDifferenceUpdate

SpecUpdate == Init /\ [][NextUpdate]_vars

\* The operations that build a new set, each applied to a set as constructed:
\* they leave the receiver alone, so one call on every set covers them. What
\* they return depends on the fields only, so the sets constructed from their
\* own list of elements are all the receivers there are.
Constructed == call.op = "init" /\ chain(call.initial) = items

AlgebraArgs == IterableLists(MaxSources, MaxSrcLen + 1)

Union ==
    /\ Constructed
    /\ \E sets \in AlgebraArgs :
          /\ Do([op |-> "union", sets |-> sets], union(Self(items, map), sets))

Intersection ==
    /\ Constructed
    /\ \E sets \in AlgebraArgs :
          /\ Do([op |-> "intersection", sets |-> sets],
                intersection(Self(items, map), sets))

Difference ==
    /\ Constructed
    /\ \E sets \in AlgebraArgs :
          /\ Do([op |-> "difference", sets |-> sets],
                difference(Self(items, map), sets))

SymmetricDifference ==
    /\ Constructed
    /\ \E other \in SeqsUpTo(MaxLen) :
          /\ Do([op |-> "symmetric_difference", other |-> other],
                symmetric_difference(Self(items, map), other))

NextAlgebra ==
    \/ Union
    \/ Intersection
    \/ Difference
    \/ SymmetricDifference

SpecAlgebra == Init /\ [][NextAlgebra]_vars

\* The comparisons, each applied to a set as constructed.
IsSubset ==
    /\ Constructed
    /\ \E other \in Iterables :
          /\ Do([op |-> "issubset", other |-> other],
                issubset(Self(items, map), other))

IsSuperset ==
    /\ Constructed
    /\ \E other \in Iterables :
          /\ Do([op |-> "issuperset", other |-> other],
                issuperset(Self(items, map), other))

Eq ==
    /\ Constructed
    /\ \E other \in Others :
          /\ Do([op |-> "__eq__", other |-> other], eq(Self(items, map), other))

NextCompare ==
    \/ IsSubset
    \/ IsSuperset
    \/ Eq

SpecCompare == Init /\ [][NextCompare]_vars

\* The operations that read the set, each applied to a set as constructed.
Bounds == {None} \cup {<<i>> : i \in Indices}
Slices == {Slice(start, stop) : start \in Bounds, stop \in Bounds}
IndexLists == UNION {[1 .. n -> Indices] : n \in 0 .. (MaxSrcLen + 1)}
KeyLists == SeqsUpTo(MaxSrcLen + 1)

Copy ==
    /\ Constructed
    /\ Do([op |-> "copy"], copy(Self(items, map)))

GetItem ==
    /\ Constructed
    /\ \E index \in Indices :
          /\ Do([op |-> "__getitem__", index |-> index],
                getitem(Self(items, map), index))

GetSlice ==
    /\ Constructed
    /\ \E index \in Slices :
          /\ Do([op |-> "__getitem__ (slice)", index |-> index],
                getitem_slice(Self(items, map), index))

GetList ==
    /\ Constructed
    /\ \E index \in IndexLists :
          /\ Do([op |-> "__getitem__ (list)", index |-> index],
                getitem_list(Self(items, map), index))

IndexOf ==
    /\ Constructed
    /\ \E key \in Elems :
          /\ Do([op |-> "index", key |-> key], index_of(Self(items, map), key))

IndexOfList ==
    /\ Constructed
    /\ \E key \in KeyLists :
          /\ Do([op |-> "index (list)", key |-> key],
                index_of_list(Self(items, map), key))

Contains ==
    /\ Constructed
    /\ \E key \in Elems :
          /\ Do([op |-> "__contains__", key |-> key],
                Return(Self(items, map), <<contains(Self(items, map), key)>>))

Size ==
    /\ Constructed
    /\ Do([op |-> "__len__"], len_(Self(items, map)))

NextRead ==
    \/ Copy
    \/ GetItem
    \/ GetSlice
    \/ GetList
    \/ IndexOf
    \/ IndexOfList
    \/ Contains
    \/ Size

SpecRead == Init /\ [][NextRead]_vars

\* Every operation that leaves the receiver alone, and after it a mutation of
\* the receiver or of the set the call returned, by add or clear.
\* a call c with outcome r on the set the caller holds; the receiver follows
\* when the set held has the receiver's list and dict
DoKept(c, r) ==
    /\ kept' = [kept EXCEPT !.items = r.items, !.map = r.map]
    /\ items' = IF kept.id = "self" THEN r.items ELSE items
    /\ map' = IF kept.id = "self" THEN r.map ELSE map
    /\ ret' = r.ret
    /\ err' = r.err
    /\ call' = c
    /\ old' = Self(items, map)
    /\ prev' = NoPrev

AddToReturned ==
    \E value \in Elems :
        /\ call.op \in SetReturning
        /\ DoKept([op |-> "returned.add", value |-> value],
                  add(Self(kept.items, kept.map), value))

ClearReturned ==
    /\ call.op \in SetReturning
    /\ DoKept([op |-> "returned.clear"], clear(Self(kept.items, kept.map)))

NextFrame ==
    \/ Copy
    \/ GetItem
    \/ GetSlice
    \/ GetList
    \/ IndexOf
    \/ IndexOfList
    \/ Contains
    \/ Size
    \/ Union
    \/ Intersection
    \/ Difference
    \/ SymmetricDifference
    \/ IsSubset
    \/ IsSuperset
    \/ Eq
    \/ Add
    \/ Clear
    \/ AddToReturned
    \/ ClearReturned

SpecFrame == Init /\ [][NextFrame]_vars

\* the values the call c hands to self.add: add itself, append, and update
\* (so construction too) for every element it iterates over; no other
\* method calls add
add_calls(c) ==
    CASE c.op = "add" -> {c.value}
      [] c.op = "append" -> {c.key}
      [] c.op = "update" -> Range(chain(c.sequences))
      [] c.op = "init" -> Range(chain(c.initial))
      [] OTHER -> {}

\* ----------------------------------------------------------------- claims
Now == Self(items, map)
Unchanged == items = old.items /\ map = old.map

NoDuplicates(s) == \A i, j \in 1 .. Len(s) : s[i] = s[j] => i = j

\* the core invariant of the two fields
Consistent(s, m) ==
    /\ NoDuplicates(s)
    /\ DOMAIN m = Range(s)
    /\ Cardinality(DOMAIN m) = Len(s)
    /\ \A i \in 1 .. Len(s) : m[s[i]] = i - 1

\* the (1-based) place of the first occurrence of e in s
FirstPos(s, e) == CHOOSE i \in 1 .. Len(s) : s[i] = e /\ \A j \in 1 .. (i - 1) : s[j] # e

\* the fields after the last call are those before it with the element at
\* position i (0-based) removed and every later position one lower
RemovedAt(i) ==
    LET e == old.items[i + 1] IN
    /\ Len(items) = Len(old.items) - 1
    /\ \A k \in 1 .. Len(items) : items[k] = old.items[IF k <= i THEN k ELSE k + 1]
    /\ ~contains(Now, e)
    /\ \A x \in DOMAIN old.map \ {e} :
          index_of(Now, x).ret =
              <<IF old.map[x] < i THEN old.map[x] ELSE old.map[x] - 1>>

\* C1: after any sequence of add, append, update, set_at, delete_at, pop,
\* remove, discard and clear calls, successful or failing, on a constructed
\* set, the list has no duplicates, the index has exactly the list's elements
\* as keys, and every element's recorded index is its position in the list.
C1_Consistent == Consistent(items, map)

\* a discard of the first of three elements has shifted the other two down
C1_Witness ==
    /\ call.op = "discard"
    /\ Len(old.items) = 3
    /\ call.value = old.items[1]
    /\ items = <<old.items[2], old.items[3]>>

\* C2: after intersection_update, difference_update or
\* symmetric_difference_update with any source (repeats allowed, elements in
\* the set or not), the list has no duplicates, |list| = |index| and every
\* element's recorded index is its position in the list.
C2_UpdateConsistent ==
    call.op \in {"intersection_update", "difference_update",
                 "symmetric_difference_update"}
        => Consistent(items, map)

\* C3: add(value) returns the current index of a value already present and
\* changes nothing; otherwise it appends value at position = old size, leaves
\* every other position as it was, and returns old size.  Two add(x) in a row
\* return the same index, and the size grows by at most one over both.
C3_Add ==
    call.op = "add" =>
        /\ err = NoError
        /\ IF call.value \in DOMAIN old.map
           THEN ret = <<old.map[call.value]>> /\ Unchanged
           ELSE /\ ret = <<Len(old.items)>>
                /\ items = old.items \o <<call.value>>
                /\ DOMAIN map = DOMAIN old.map \cup {call.value}
                /\ map[call.value] = Len(old.items)
                /\ \A e \in DOMAIN old.map : map[e] = old.map[e]
        /\ prev.op = "add" => ret = prev.ret /\ Len(items) <= prev.size + 1

\* the second of two add(x), the first of which appended x to a non-empty set
C3_Witness ==
    /\ call.op = "add"
    /\ prev.op = "add"
    /\ prev.size >= 1
    /\ Len(items) = prev.size + 1
    /\ ret = <<prev.size>>

\* C4: constructing a set from a source yields the source's distinct elements
\* in order of first occurrence: a later repeat is dropped and moves nothing,
\* and the size is the number of distinct elements of the source.
C4_Construct ==
    call.op = "init" =>
        LET source == IF call.initial = <<>> THEN <<>> ELSE call.initial[1].elems IN
        /\ NoDuplicates(items)
        /\ Range(items) = Range(source)
        /\ Len(items) = Cardinality(Range(source))
        /\ \A i, j \in 1 .. Len(items) :
              i < j => FirstPos(source, items[i]) < FirstPos(source, items[j])

\* a set constructed from <<x, y, x>> is <<x, y>>
C4_Witness ==
    /\ call.op = "init"
    /\ call.initial # <<>>
    /\ LET source == call.initial[1].elems IN
       /\ Len(source) = 3
       /\ source[1] = source[3]
       /\ source[1] # source[2]
       /\ items = <<source[1], source[2]>>

\* C5, as claimed: after a successful set_at(index, value), get(index) returns
\* value and index_of(value) is the normalised index, whether value was absent
\* or already present at some position.
C5_SetAtGivenIndex ==
    call.op = "__setitem__" /\ err = NoError =>
        /\ getitem(Now, call.index).ret = <<call.value>>
        /\ index_of(Now, call.value).ret = <<Normal(call.index, Len(old.items))>>

\* C5, amended: after a successful set_at(index, value), value is the element
\* at position p (get(p) returns value and index_of(value) = p), where p is
\* the normalised index i, except that p = i - 1 when value was already
\* present at an earlier position j < i.
C5_SetAtShifted ==
    call.op = "__setitem__" /\ err = NoError =>
        LET i == Normal(call.index, Len(old.items))
            p == IF call.value \in DOMAIN old.map /\ old.map[call.value] < i
                 THEN i - 1 ELSE i
        IN  /\ getitem(Now, p).ret = <<call.value>>
            /\ index_of(Now, call.value).ret = <<p>>

\* a set_at of a value that was at an earlier position than the target
C5_Witness ==
    /\ call.op = "__setitem__"
    /\ err = NoError
    /\ call.value \in DOMAIN old.map
    /\ old.map[call.value] < Normal(call.index, Len(old.items))

\* C6: set_at(index, value) with an in-range index: (a) value absent: the
\* element at index is replaced, every other element keeps its position, the
\* size is unchanged; (b) value present at that position: nothing changes;
\* (c) value present at another position j: value is removed from j and
\* written over the element at the target (index - 1 when j < index, index
\* otherwise), so the size shrinks by one, the element formerly at index is
\* gone, and the remaining elements keep their relative order.
C6_SetAtCases ==
    call.op = "__setitem__"
    /\ (0 - Len(old.items)) <= call.index /\ call.index < Len(old.items) =>
        LET n == Len(old.items)
            i == IF call.index < 0 THEN call.index + n ELSE call.index
            v == call.value
            e == old.items[i + 1]
        IN  /\ err = NoError
            /\ IF v \notin DOMAIN old.map
               THEN /\ Len(items) = n
                    /\ items[i + 1] = v
                    /\ \A k \in 1 .. n : k # i + 1 => items[k] = old.items[k]
               ELSE IF old.map[v] = i
               THEN Unchanged
               ELSE LET j == old.map[v]
                        t == IF j < i THEN i - 1 ELSE i
                    IN  /\ Len(items) = n - 1
                        /\ e \notin Range(items)
                        /\ items[t + 1] = v
                        /\ Without(items, {v}) = Without(old.items, {v, e})

\* a set_at of a value that was at a later position than the target
C6_Witness ==
    /\ call.op = "__setitem__"
    /\ err = NoError
    /\ call.value \in DOMAIN old.map
    /\ old.map[call.value] > Normal(call.index, Len(old.items))
    /\ Len(items) = Len(old.items) - 1
    /\ Len(items) = 2

\* C7: delete_at(index) with -size <= index < size removes exactly the element
\* at that position, negative indices counted from the end: the size decreases
\* by one, the elements before it keep their index, the index of every later
\* element (as index_of reports it) decreases by one, and the removed element
\* is no longer a member.
C7_DeleteAt ==
    call.op = "__delitem__"
    /\ (0 - Len(old.items)) <= call.index /\ call.index < Len(old.items) =>
        LET i == IF call.index < 0 THEN call.index + Len(old.items) ELSE call.index
        IN  err = NoError /\ RemovedAt(i)

\* del s[-2] on a set of three elements
C7_Witness ==
    /\ call.op = "__delitem__"
    /\ call.index = 0 - 2
    /\ Len(old.items) = 3
    /\ items = <<old.items[1], old.items[3]>>

\* C8: pop(index) on a non-empty set with an in-range index (default -1, the
\* last position) returns the element at that position and removes it, every
\* later element's index one lower; an add of the popped value right after
\* appends it at the new end (add returns the size after the pop and the value
\* is the last element), not at its old position.
C8_Pop ==
    /\ call.op = "pop" /\ old.items # <<>>
       /\ (0 - Len(old.items)) <= call.index /\ call.index < Len(old.items) =>
          LET i == IF call.index < 0 THEN call.index + Len(old.items) ELSE call.index
          IN  /\ err = NoError
              /\ ret = <<old.items[i + 1]>>
              /\ call.index = 0 - 1 => ret = <<old.items[Len(old.items)]>>
              /\ RemovedAt(i)
    /\ call.op = "add" /\ prev.op = "pop" =>
          /\ Len(old.items) = prev.size - 1
          /\ ret = <<Len(old.items)>>
          /\ items = old.items \o <<call.value>>

\* the first of three elements was popped and then added again
C8_Witness ==
    /\ call.op = "add"
    /\ prev.op = "pop"
    /\ prev.size = 3
    /\ prev.index = 0
    /\ items[3] = call.value

\* C9: a failed positional mutation raises the documented error and leaves the
\* list and index as they were: set_at and delete_at with index >= size or
\* index < -size (any index on an empty set) raise the range error; pop on an
\* empty set raises the not-found error whatever the index; pop on a non-empty
\* set with an out-of-range index raises the range error.
C9_FailedMutation ==
    LET outside == call.index >= Len(old.items) \/ call.index < 0 - Len(old.items) IN
    /\ call.op \in {"__setitem__", "__delitem__"} /\ outside =>
          err = "IndexError" /\ Unchanged
    /\ call.op = "pop" /\ old.items = <<>> => err = "KeyError" /\ Unchanged
    /\ call.op = "pop" /\ old.items # <<>> /\ outside =>
          err = "IndexError" /\ Unchanged
    /\ call.op \in {"__setitem__", "__delitem__", "pop"} /\ err # NoError => Unchanged

\* pop(0) on an empty set
C9_Witness ==
    /\ call.op = "pop"
    /\ call.index = 0
    /\ old.items = <<>>
    /\ err = "KeyError"

\* C10: remove(value) and discard(value) of a present value both remove
\* exactly that value and shift the later elements down by one; of an absent
\* value remove raises the not-found error and discard raises nothing, and
\* both leave the list and index unchanged.
C10_RemoveDiscard ==
    call.op \in {"remove", "discard"} =>
        LET v == call.value IN
        IF v \in DOMAIN old.map
        THEN /\ err = NoError
             /\ items = Without(old.items, {v})
             /\ DOMAIN map = DOMAIN old.map \ {v}
             /\ \A x \in DOMAIN map :
                   map[x] = IF old.map[x] > old.map[v] THEN old.map[x] - 1
                            ELSE old.map[x]
        ELSE /\ Unchanged
             /\ err = IF call.op = "remove" THEN "KeyError" ELSE NoError

\* remove of a value absent from a set of two elements or more
C10_Witness ==
    /\ call.op = "remove"
    /\ err = "KeyError"
    /\ Len(items) >= 2

\* s is the first-occurrence de-duplication of t
IsDedupOf(s, t) ==
    /\ NoDuplicates(s)
    /\ Range(s) = Range(t)
    /\ \A i, j \in 1 .. Len(s) : i < j => FirstPos(t, s[i]) < FirstPos(t, s[j])

\* C11: when update fails with the input-shape error because a source is not
\* iterable, the list and index are what they were before the call, even when
\* the sources before the bad one held elements not yet in the set.
C11_FailedUpdateUnchanged ==
    call.op = "update" /\ err = "ValueError" => Unchanged

IsSelection(s, t, keep) ==
    /\ NoDuplicates(s)
    /\ Range(s) = Range(t) \cap keep
    /\ \A i, j \in 1 .. Len(s) : i < j => FirstPos(t, s[i]) < FirstPos(t, s[j])

\* the elements that are in every one of the sources
InEvery(sets) == {e \in Elems : \A k \in 1 .. Len(sets) : e \in Range(sets[k].elems)}
\* the elements that are in none of the sources
InNone(sets) == {e \in Elems : \A k \in 1 .. Len(sets) : e \notin Range(sets[k].elems)}

Reverse(s) == [i \in 1 .. Len(s) |-> s[Len(s) + 1 - i]]

\* C13: union(o1, ..., ok) returns a set whose list is the first-occurrence
\* de-duplication of self's elements followed by o1's, ..., ok's in argument
\* order; self's elements are a prefix of it in their order, and when every
\* other source is a subset of self the result equals self.
C13_Union ==
    call.op = "union" =>
        LET others == chain(call.sets)
            res == ret[1]
        IN  /\ err = NoError
            /\ Consistent(res.items, res.map)
            /\ IsDedupOf(res.items, old.items \o others)
            /\ Len(res.items) >= Len(old.items)
            /\ SubSeq(res.items, 1, Len(old.items)) = old.items
            /\ Range(others) \subseteq Range(old.items) => res = old

\* a union with two sources, the first inside self and the second new
C13_Witness ==
    /\ call.op = "union"
    /\ Len(call.sets) = 2
    /\ Len(old.items) = 2
    /\ Len(call.sets[1].elems) = 1
    /\ Len(call.sets[2].elems) = 1
    /\ call.sets[1].elems[1] = old.items[2]
    /\ ret[1].items = old.items \o call.sets[2].elems
    /\ Len(ret[1].items) = 3

\* C14: intersection(o1, ..., ok) returns exactly the elements of self that
\* are in every other source, in self's order, whatever the order of the
\* other sources; with no other source it returns a copy of self.
C14_Intersection ==
    call.op = "intersection" =>
        /\ err = NoError
        /\ Consistent(ret[1].items, ret[1].map)
        /\ IsSelection(ret[1].items, old.items, InEvery(call.sets))
        /\ intersection(old, Reverse(call.sets)).ret = ret
        /\ call.sets = <<>> => ret[1] = old

\* an intersection with one source that lists two elements of self in the
\* other order
C14_Witness ==
    /\ call.op = "intersection"
    /\ Len(call.sets) = 1
    /\ Len(call.sets[1].elems) = 2
    /\ Len(old.items) = 3
    /\ ret[1].items = Reverse(call.sets[1].elems)

\* C15: difference(o1, ..., ok) returns exactly the elements of self that are
\* in none of the other sources, in self's order; with no other source it
\* returns a copy of self.
C15_Difference ==
    call.op = "difference" =>
        /\ err = NoError
        /\ Consistent(ret[1].items, ret[1].map)
        /\ IsSelection(ret[1].items, old.items, InNone(call.sets))
        /\ call.sets = <<>> => ret[1] = old

\* a difference with two sources, each taking another element of self away
C15_Witness ==
    /\ call.op = "difference"
    /\ Len(call.sets) = 2
    /\ Len(old.items) = 3
    /\ Len(call.sets[1].elems) = 1
    /\ Len(call.sets[2].elems) = 1
    /\ call.sets[1].elems # call.sets[2].elems
    /\ Len(ret[1].items) = 1

\* C16: symmetric_difference(other) returns exactly the elements that are in
\* exactly one of self and other: first those of self not in other, in self's
\* order, then those of other not in self, in other's order, none repeated; it
\* equals union(difference(self, other), difference(other, self)).
C16_SymmetricDifference ==
    call.op = "symmetric_difference" =>
        LET other == call.other
            res == ret[1].items
            mine == Cardinality(Range(old.items) \ Range(other))
        IN  /\ err = NoError
            /\ Consistent(res, ret[1].map)
            /\ Range(res) = (Range(old.items) \ Range(other))
                                \cup (Range(other) \ Range(old.items))
            /\ Len(res) >= mine
            /\ IsSelection(SubSeq(res, 1, mine), old.items,
                           Elems \ Range(other))
            /\ IsSelection(SubSeq(res, mine + 1, Len(res)), other,
                           Elems \ Range(old.items))
            /\ ret = union(difference(old, <<Iterable(other)>>).ret[1],
                           <<Iterable(difference(cls(other),
                                 <<Iterable(old.items)>>).ret[1].items)>>).ret

\* a symmetric difference with an other that repeats an element self lacks
C16_Witness ==
    /\ call.op = "symmetric_difference"
    /\ Len(call.other) = 3
    /\ call.other[1] = call.other[2]
    /\ call.other[1] \notin Range(old.items)
    /\ call.other[3] \in Range(old.items)
    /\ Len(old.items) = 2
    /\ Len(ret[1].items) = 2

\* the fields a call left behind, as a set
Fields(r) == Self(r.items, r.map)

\* C17: for ordered sets A and B the in-place form on a copy of A, the named
\* method and the operator give the same ordered result, for intersection,
\* union / update, difference and symmetric difference, and A is unchanged.
C17_Forms ==
    /\ call.op \in {"union", "intersection", "difference"}
            /\ Len(call.sets) = 1 /\ NoDuplicates(call.sets[1].elems) =>
          LET A == old
              B == cls(call.sets[1].elems)
              inplace ==
                  CASE call.op = "union" ->
                          update(copy(A).ret[1], <<Iterable(B.items)>>)
                    [] call.op = "intersection" ->
                          intersection_update(copy(A).ret[1], B.items)
                    [] call.op = "difference" ->
                          difference_update(copy(A).ret[1], <<Iterable(B.items)>>)
              operator ==
                  CASE call.op = "union" -> or_(A, B)
                    [] call.op = "intersection" -> and_(A, B)
                    [] call.op = "difference" -> sub_(A, B)
          IN  /\ ret = <<Fields(inplace)>>
              /\ ret = operator.ret
              /\ Fields(operator) = A
              /\ Unchanged
    /\ call.op = "symmetric_difference" /\ NoDuplicates(call.other) =>
          LET A == old
              B == cls(call.other)
          IN  /\ ret = <<Fields(symmetric_difference_update(copy(A).ret[1],
                                                            B.items))>>
              /\ ret = xor_(A, B).ret
              /\ Fields(xor_(A, B)) = A
              /\ Unchanged

\* an intersection of two ordered sets that list their common elements in
\* different orders
C17_Witness ==
    /\ call.op = "intersection"
    /\ Len(call.sets) = 1
    /\ NoDuplicates(call.sets[1].elems)
    /\ Len(call.sets[1].elems) = 2
    /\ Len(ret[1].items) = 2
    /\ ret[1].items # call.sets[1].elems
    /\ Unchanged

\* C18: issuperset(other) is true exactly when every element of other is in
\* self, for other an ordered set or any sized sequence, repeats allowed.
C18_IsSuperset ==
    call.op = "issuperset" /\ call.other.kind = "sequence" =>
        ret = <<Range(call.other.elems) \subseteq Range(old.items)>>

\* C19: issubset(other) is true exactly when every element of self is in
\* other, for other an ordered set or any sized sequence, repeats allowed.
C19_IsSubset ==
    call.op = "issubset" /\ call.other.kind = "sequence" =>
        /\ err = NoError
        /\ ret = <<Range(old.items) \subseteq Range(call.other.elems)>>

\* a subset test against a sequence that repeats an element
C19_Witness ==
    /\ call.op = "issubset"
    /\ call.other.kind = "sequence"
    /\ ~NoDuplicates(call.other.elems)
    /\ Len(old.items) = 2
    /\ ret = <<TRUE>>

\* C20: __eq__(other): for a sequence, true exactly when the lengths are the
\* same and so is the element at every position (so a sequence with repeats
\* never equals a set); for an unordered collection, true exactly when the
\* sets of elements are the same; for a value that is no collection, false;
\* no error is raised.
C20_Eq ==
    call.op = "__eq__" =>
        LET other == call.other IN
        /\ err = NoError
        /\ other.kind = "sequence" =>
              /\ ret = <<Len(other.elems) = Len(old.items)
                            /\ \A i \in 1 .. Len(old.items) :
                                  other.elems[i] = old.items[i]>>
              /\ ~NoDuplicates(other.elems) => ret = <<FALSE>>
        /\ other.kind \in {"set", "iterator"} =>
              ret = <<Range(other.elems) = Range(old.items)>>
        /\ other.kind = "other" => ret = <<FALSE>>

\* a comparison with a sequence of the same elements in another order
C20_Witness ==
    /\ call.op = "__eq__"
    /\ call.other.kind = "sequence"
    /\ Len(call.other.elems) = Len(old.items)
    /\ Range(call.other.elems) = Range(old.items)
    /\ Len(old.items) = 3
    /\ ret = <<FALSE>>

\* C21: exporting the state of a set and building a set from that state
\* gives a set equal to the original (same elements, same order, consistent
\* index), for the empty set, for non-empty sets and for sets reached by any
\* sequence of mutations; the state exported for the empty set is a marker
\* that is not empty, not an empty sequence.
C21_RoundTrip ==
    LET state == getstate(Now).ret[1]
        back == setstate(state)
    IN  /\ back.err = NoError
        /\ back.items = items
        /\ back.map = map
        /\ Consistent(back.items, back.map)
        /\ items = <<>> => state.type = "tuple" /\ Len(state.elems) = 1
        /\ items # <<>> => state = StateList(items)

\* C22: whenever an operation makes an element that was absent a member of
\* the set (append, update, construction, __setitem__ with a new value,
\* symmetric_difference_update, ...), that element was inserted by a call to
\* add on that set.
C22_InsertedByAdd ==
    \A e \in Range(items) \ Range(old.items) : e \in add_calls(call)

\* C23: the shifting and the rebuilding removals give the same state: for an
\* element v at position i of a set, discard(v), remove(v), __delitem__(i) and
\* pop(i) all leave the same list and the same index.
C23_SameRemoval ==
    /\ call.op \in {"discard", "remove"} /\ call.value \in Range(old.items) =>
          LET v == call.value
              i == old.map[v]
          IN  /\ Now = Fields(discard(old, v))
              /\ Now = Fields(remove(old, v))
              /\ Now = Fields(delitem(old, i))
              /\ Now = Fields(pop(old, i))
              /\ Now = Fields(delitem(old, i - Len(old.items)))
              /\ Now = Fields(pop(old, i - Len(old.items)))
    /\ call.op \in {"__delitem__", "pop"} /\ err = NoError =>
          LET i == Normal(call.index, Len(old.items))
              v == old.items[i + 1]
          IN  /\ Now = Fields(discard(old, v))
              /\ Now = Fields(remove(old, v))
              /\ Now = Fields(delitem(old, call.index))
              /\ Now = Fields(pop(old, call.index))

\* a discard of the middle element of three
C23_Witness ==
    /\ call.op = "discard"
    /\ Len(old.items) = 3
    /\ call.value = old.items[2]
    /\ Len(items) = 2

\* C24: positional access and lookup are inverse in every reachable state:
\* self[self.index(e)] = e for every member e; self.index(self[i]) = i for
\* 0 <= i < size; self[i] = self[i + size] for -size <= i < 0; and e in self
\* exactly for the elements iteration gives.
C24_Inverse ==
    LET size == Len(items) IN
    /\ \A e \in DOMAIN map :
          /\ index_of(Now, e).err = NoError
          /\ getitem(Now, index_of(Now, e).ret[1]).ret = <<e>>
    /\ \A i \in 0 .. (size - 1) :
          /\ getitem(Now, i).err = NoError
          /\ index_of(Now, getitem(Now, i).ret[1]).ret = <<i>>
    /\ \A i \in (0 - size) .. (0 - 1) :
          getitem(Now, i).ret = getitem(Now, i + size).ret
    /\ \A e \in Elems : contains(Now, e) <=> e \in Range(items)

\* the calls that only read the receiver
NonMutating ==
    SetReturning \cup
        {"__getitem__", "__getitem__ (list)", "index", "index (list)",
         "__contains__", "__len__", "issubset", "issuperset", "__eq__"}

====
